---- MODULE Spec2Model ----
(***************************************************************************)
(* Model of the Method CRM MCP server: the tool handlers, the HTTP client  *)
(* (MethodAPIClient.request with its tenacity retry decorator) and the     *)
(* error translator (handle_api_error).                                    *)
(*                                                                         *)
(* Text is modelled as a sequence of string pieces: an f-string is the     *)
(* concatenation of its literal pieces and of the rendering of its         *)
(* interpolated values.  Header values are sequences of characters.        *)
(***************************************************************************)
EXTENDS Integers, Sequences, FiniteSets, TLC

\* ----------------------------------------------------------------------
\* Bounds of the model
\* ----------------------------------------------------------------------

\* longest Retry-After header value the transport model produces
MaxHdrLen == 2

\* characters a header value is made of: two digits and a non-digit
HdrChars == {"3", "0", "x"}

\* ----------------------------------------------------------------------
\* Program constants
\* ----------------------------------------------------------------------

\* stop_after_attempt(3)
MaxAttempts == 3

\* ----------------------------------------------------------------------
\* Optional values (Python None)
\* ----------------------------------------------------------------------

NoneVal == [has |-> FALSE, val |-> 0]

Some(n) == [has |-> TRUE, val |-> n]

\* response.headers.get("Retry-After"): absent header
NoHeader == [present |-> FALSE, val |-> <<>>]

Header(cs) == [present |-> TRUE, val |-> cs]

SeqsUpTo(S, n) == UNION {[1..k -> S] : k \in 0..n}

HeaderValues == {NoHeader} \cup {Header(cs) : cs \in SeqsUpTo(HdrChars, MaxHdrLen)}

\* ----------------------------------------------------------------------
\* Text helpers
\* ----------------------------------------------------------------------

RECURSIVE Join(_)
\* the characters of a header value as one piece of text
Join(cs) == IF cs = <<>> THEN "" ELSE Head(cs) \o Join(Tail(cs))

DigitVal(c) == CASE c = "0" -> 0 [] c = "1" -> 1 [] c = "2" -> 2 [] c = "3" -> 3
                 [] c = "4" -> 4 [] c = "5" -> 5 [] c = "6" -> 6 [] c = "7" -> 7
                 [] c = "8" -> 8 [] c = "9" -> 9 [] OTHER -> -1

IsDigit(c) == DigitVal(c) >= 0

RECURSIVE DigitsValue(_, _)
DigitsValue(cs, acc) ==
    IF cs = <<>> THEN acc ELSE DigitsValue(Tail(cs), acc * 10 + DigitVal(Head(cs)))

\* Python int(str): a decimal literal gives its value, anything else raises
\* ValueError.
PyInt(cs) ==
    IF cs # <<>> /\ \A i \in 1..Len(cs) : IsDigit(cs[i])
    THEN [raised |-> FALSE, val |-> DigitsValue(cs, 0)]
    ELSE [raised |-> TRUE, val |-> 0]

\* ----------------------------------------------------------------------
\* Response bodies and JSON decoding
\* ----------------------------------------------------------------------

\* shapes of a response body:
\*   empty      no content
\*   text       content that is not JSON
\*   list       a JSON array
\*   string     a JSON string
\*   obj        a JSON object without an "error" member
\*   objErrNull {"error": null}
\*   objErrStr  {"error": "text"}
\*   objErrObj  {"error": {}}
\*   objErrMsg  {"error": {"message": "upstream"}}
Bodies == {"empty", "text", "list", "string", "obj",
           "objErrNull", "objErrStr", "objErrObj", "objErrMsg"}

\* the message the upstream API put in error.message
UpstreamMessage == <<"upstream message">>

\* a decoded JSON value: its Python type, the shape of its "error" member,
\* and whether it is the no-content marker built by the client
JsonValue(kind, errKind) == [kind |-> kind, err |-> errKind, marker |-> FALSE]

\* response.json(): the decoded value, or JSONDecodeError
ParseJson(body) ==
    CASE body \in {"empty", "text"} -> [raised |-> TRUE, val |-> JsonValue("none", "absent")]
      [] body = "list"       -> [raised |-> FALSE, val |-> JsonValue("list", "absent")]
      [] body = "string"     -> [raised |-> FALSE, val |-> JsonValue("string", "absent")]
      [] body = "obj"        -> [raised |-> FALSE, val |-> JsonValue("dict", "absent")]
      [] body = "objErrNull" -> [raised |-> FALSE, val |-> JsonValue("dict", "null")]
      [] body = "objErrStr"  -> [raised |-> FALSE, val |-> JsonValue("dict", "string")]
      [] body = "objErrObj"  -> [raised |-> FALSE, val |-> JsonValue("dict", "dict")]
      [] body = "objErrMsg"  -> [raised |-> FALSE, val |-> JsonValue("dict", "dictMsg")]

\* ----------------------------------------------------------------------
\* Exceptions
\* ----------------------------------------------------------------------

\* the MethodAPIError family (errors.py)
TaxonomySubtypes == {"AuthenticationError", "RateLimitError", "ValidationError",
                     "NotFoundError", "PermissionError"}

TaxonomyTypes == TaxonomySubtypes \cup {"MethodAPIError"}

\* httpx.TimeoutException and its subclasses
TimeoutTypes == {"ConnectTimeout", "ReadTimeout"}

\* exceptions that are none of the recognised kinds
OtherTypes == {"ValueError", "JSONDecodeError", "AttributeError",
               "NotImplementedError", "TypeError"}

ExceptionTypes == {"HTTPStatusError", "ConnectError"} \cup TimeoutTypes
                    \cup TaxonomyTypes \cup OtherTypes

\* isinstance(e, cls)
IsInstance(e, cls) ==
    CASE cls = "MethodAPIError"   -> e.type \in TaxonomyTypes
      [] cls = "TimeoutException" -> e.type \in TimeoutTypes
      [] OTHER                    -> e.type = cls

\* an exception object: its class, its message (str(e)), and for the classes
\* that carry them the response (status, body, Retry-After header) and
\* retry_after
Exc(type, message) ==
    [type |-> type, message |-> message, status |-> 0, body |-> "empty",
     hdr |-> NoHeader, retry_after |-> NoneVal]

\* httpx.HTTPStatusError raised by response.raise_for_status()
HTTPStatusError(status, body, hdr) ==
    [type |-> "HTTPStatusError",
     message |-> <<"HTTP error '", ToString(status), "' for url">>,
     status |-> status, body |-> body, hdr |-> hdr, retry_after |-> NoneVal]

\* RateLimitError(message, retry_after): status_code is 429
RateLimitError(message, retry_after) ==
    [type |-> "RateLimitError", message |-> message, status |-> 429,
     body |-> "empty", hdr |-> NoHeader, retry_after |-> retry_after]

\* str(e)
StrOf(e) == e.message

\* ----------------------------------------------------------------------
\* errors.py: handle_api_error
\* ----------------------------------------------------------------------

\* the body of the try block: error_data = e.response.json();
\* error_data.get("error", {}).get("message", str(e)).  A .get on a value
\* that is not a dict raises AttributeError.
ExtractTry(e) ==
    LET parsed == ParseJson(e.body)
        v == parsed.val
    IN  IF parsed.raised THEN [raised |-> TRUE, type |-> "JSONDecodeError", msg |-> <<>>]
        ELSE IF v.kind # "dict" THEN [raised |-> TRUE, type |-> "AttributeError", msg |-> <<>>]
        ELSE IF v.err \in {"null", "string"}
             THEN [raised |-> TRUE, type |-> "AttributeError", msg |-> <<>>]
        ELSE IF v.err = "dictMsg"
             THEN [raised |-> FALSE, type |-> "", msg |-> UpstreamMessage]
        ELSE [raised |-> FALSE, type |-> "", msg |-> StrOf(e)]

\* a try block that only catches the JSON decoding failure
ExtractErrorMessage_NarrowCatch(e) ==
    LET t == ExtractTry(e)
    IN  IF t.raised /\ t.type = "JSONDecodeError"
        THEN [raised |-> FALSE, msg |-> StrOf(e)]
        ELSE [raised |-> t.raised, msg |-> t.msg]

\* try: ... except Exception: error_message = str(e)
ExtractErrorMessage(e) ==
    LET t == ExtractTry(e)
    IN  IF t.raised THEN [raised |-> FALSE, msg |-> StrOf(e)]
        ELSE [raised |-> FALSE, msg |-> t.msg]

\* a status table with the 403 and 404 rows exchanged
HttpStatusMessage_Swapped(status_code, error_message, hdr) ==
    IF status_code = 404
    THEN <<"Error: ", "Permission denied - ">> \o error_message
    ELSE IF status_code = 403
    THEN <<"Error: ", "Resource not found - ">> \o error_message
    ELSE <<"Error: ", "API request failed with status ", ToString(status_code), " - ">>
             \o error_message

\* the if/elif chain over status_code
HttpStatusMessage(status_code, error_message, hdr) ==
    IF status_code = 400
    THEN <<"Error: ", "Validation failed - ">> \o error_message
           \o <<"\nSuggestion: Check that all required fields are provided and have valid values. ">>
    ELSE IF status_code = 401
    THEN <<"Error: ", "Authentication failed. Your API key or access token is invalid or expired.\n",
           "Suggestion: Check that METHOD_API_KEY is correctly set in your environment. ">>
    ELSE IF status_code = 403
    THEN <<"Error: ", "Permission denied - ">> \o error_message
           \o <<"\nSuggestion: Your account doesn't have permission to perform this operation. ">>
    ELSE IF status_code = 404
    THEN <<"Error: ", "Resource not found - ">> \o error_message
           \o <<"\nSuggestion: Verify that the table name, record ID, or file ID is correct. ">>
    ELSE IF status_code = 429
    THEN <<"Error: ", "Rate limit exceeded (100 requests/minute or daily limit reached).\n",
           "Retry-After: ", (IF hdr.present THEN Join(hdr.val) ELSE "unknown"), " seconds\n",
           "Suggestion: Wait before making more requests. ">>
    ELSE IF status_code = 500
    THEN <<"Error: ", "Method API server error occurred.\n",
           "Suggestion: This is a temporary server issue. Wait a moment and retry. ">>
    ELSE IF status_code = 503
    THEN <<"Error: ", "Method API service temporarily unavailable.\n",
           "Suggestion: The API is undergoing maintenance or experiencing high load. ">>
    ELSE <<"Error: ", "API request failed with status ", ToString(status_code), " - ">>
             \o error_message

\* the elif isinstance chain after the HTTPStatusError branch
ExceptionMessage(e) ==
    IF IsInstance(e, "TimeoutException")
    THEN <<"Error: ", "Request timed out while waiting for Method API response.\n",
           "Suggestion: The API might be slow or your network connection interrupted. ">>
    ELSE IF IsInstance(e, "ConnectError")
    THEN <<"Error: ", "Unable to connect to Method API.\n",
           "Suggestion: Check your internet connection and verify that METHOD_API_BASE_URL ">>
    ELSE IF IsInstance(e, "AuthenticationError")
    THEN <<"Error: ">> \o e.message
           \o <<"\nSuggestion: Verify your authentication credentials.">>
    ELSE IF IsInstance(e, "RateLimitError")
    THEN <<"Error: ">> \o e.message
           \o (IF e.retry_after.has /\ e.retry_after.val # 0
               THEN <<" Retry after ", ToString(e.retry_after.val), " seconds.">>
               ELSE <<>>)
           \o <<"\nSuggestion: Wait before making more requests to respect rate limits.">>
    ELSE IF IsInstance(e, "ValidationError")
    THEN <<"Error: ">> \o e.message
           \o <<"\nSuggestion: Check your input parameters and try again.">>
    ELSE IF IsInstance(e, "NotFoundError")
    THEN <<"Error: ">> \o e.message
           \o <<"\nSuggestion: Verify the resource ID and try again.">>
    ELSE IF IsInstance(e, "PermissionError")
    THEN <<"Error: ">> \o e.message
           \o <<"\nSuggestion: Check your account permissions.">>
    ELSE IF IsInstance(e, "MethodAPIError")
    THEN <<"Error: ">> \o e.message
    ELSE <<"Error: ", "Unexpected ", e.type, " occurred - ">> \o StrOf(e)
           \o <<"\nSuggestion: This is an unexpected error. ">>

\* handle_api_error(e): the text it returns, or raised when an exception
\* leaves it
HandleApiError(e) ==
    IF IsInstance(e, "HTTPStatusError")
    THEN LET em == ExtractErrorMessage(e)
         IN  IF em.raised THEN [raised |-> TRUE, msg |-> <<>>]
             ELSE [raised |-> FALSE, msg |-> HttpStatusMessage(e.status, em.msg, e.hdr)]
    ELSE [raised |-> FALSE, msg |-> ExceptionMessage(e)]

\* ----------------------------------------------------------------------
\* auth.py: AuthManager and the strategies
\* ----------------------------------------------------------------------

Whitespace == {" "}

RECURSIVE LStrip(_)
LStrip(cs) == IF cs # <<>> /\ Head(cs) \in Whitespace THEN LStrip(Tail(cs)) ELSE cs

RECURSIVE RStrip(_)
RStrip(cs) ==
    IF cs # <<>> /\ cs[Len(cs)] \in Whitespace
    THEN RStrip(SubSeq(cs, 1, Len(cs) - 1)) ELSE cs

\* str.strip()
Strip(cs) == RStrip(LStrip(cs))

\* an environment: the value of each credential variable, <<>> when the
\* variable is unset or empty (os.getenv gives None, which is as falsy)
Env(api_key, client_id, client_secret, redirect_uri) ==
    [api_key |-> api_key, client_id |-> client_id,
     client_secret |-> client_secret, redirect_uri |-> redirect_uri]

\* the environments the process is started in
Envs == {Env(<<>>, <<>>, <<>>, <<>>),
         Env(<<" ">>, <<>>, <<>>, <<>>),
         Env(<<" ", "k", " ">>, <<"c">>, <<"s">>, <<>>),
         Env(<<>>, <<"c">>, <<"s">>, <<>>)}

NoExc == [type |-> "none", message |-> <<>>, status |-> 0, body |-> "empty",
          hdr |-> NoHeader, retry_after |-> NoneVal]

NoAuth == [method |-> "none", api_key |-> <<>>]

\* an APIKeyAuth that stores the key as it was given
APIKeyAuth_Unstripped(api_key) ==
    IF api_key = <<>> \/ Strip(api_key) = <<>>
    THEN [raised |-> TRUE, exc |-> Exc("AuthenticationError", <<"API key cannot be empty">>),
          auth |-> NoAuth]
    ELSE [raised |-> FALSE, exc |-> NoExc,
          auth |-> [method |-> "api_key", api_key |-> api_key]]

\* APIKeyAuth.__init__
APIKeyAuth(api_key) ==
    IF api_key = <<>> \/ Strip(api_key) = <<>>
    THEN [raised |-> TRUE, exc |-> Exc("AuthenticationError", <<"API key cannot be empty">>),
          auth |-> NoAuth]
    ELSE [raised |-> FALSE, exc |-> NoExc,
          auth |-> [method |-> "api_key", api_key |-> Strip(api_key)]]

\* an AuthManager that looks at the OAuth2 client id before the API key
AuthManager_OAuthFirst(env) ==
    IF env.client_id # <<>>
    THEN [raised |-> FALSE, exc |-> NoExc,
          auth |-> [method |-> "oauth2_implicit", api_key |-> <<>>]]
    ELSE IF env.api_key # <<>>
    THEN APIKeyAuth(env.api_key)
    ELSE [raised |-> TRUE,
          exc |-> Exc("AuthenticationError", <<"No authentication credentials found. ">>),
          auth |-> NoAuth]

\* AuthManager.__init__: the strategy selected from the environment
AuthManager(env) ==
    IF env.api_key # <<>>
    THEN APIKeyAuth(env.api_key)
    ELSE IF env.client_id # <<>> /\ env.client_secret # <<>> /\ env.redirect_uri # <<>>
    THEN [raised |-> FALSE, exc |-> NoExc,
          auth |-> [method |-> "oauth2_authorization_code", api_key |-> <<>>]]
    ELSE IF env.client_id # <<>> /\ env.client_secret # <<>>
    THEN [raised |-> FALSE, exc |-> NoExc,
          auth |-> [method |-> "oauth2_client_credentials", api_key |-> <<>>]]
    ELSE IF env.client_id # <<>>
    THEN [raised |-> FALSE, exc |-> NoExc,
          auth |-> [method |-> "oauth2_implicit", api_key |-> <<>>]]
    ELSE [raised |-> TRUE,
          exc |-> Exc("AuthenticationError", <<"No authentication credentials found. ">>),
          auth |-> NoAuth]

\* an is_valid that accepts every configured strategy
IsValid_Configured(auth) == auth.method # "none"

\* AuthManager.is_valid: APIKeyAuth.is_valid is bool(self.api_key), the
\* OAuth2 strategies return False
IsValid(auth) == auth.method = "api_key" /\ auth.api_key # <<>>

\* the strategies that are placeholders
OAuth2Methods == {"oauth2_authorization_code", "oauth2_client_credentials",
                  "oauth2_implicit"}

NoHeaders == [Authorization |-> <<>>, ContentType |-> ""]

\* the characters of the literal part of f"APIKey {self.api_key}"
APIKeyPrefix == <<"A", "P", "I", "K", "e", "y", " ">>

\* AuthManager.get_headers: the headers of the selected strategy; the
\* OAuth2 strategies raise NotImplementedError
GetHeaders(auth) ==
    IF auth.method = "none"
    THEN [raised |-> TRUE,
          exc |-> Exc("AuthenticationError", <<"No authentication method configured">>),
          headers |-> NoHeaders]
    ELSE IF auth.method \in OAuth2Methods
    THEN [raised |-> TRUE, exc |-> Exc("NotImplementedError", <<auth.method>>),
          headers |-> NoHeaders]
    ELSE [raised |-> FALSE, exc |-> NoExc,
          headers |-> [Authorization |-> APIKeyPrefix \o auth.api_key,
                       ContentType |-> "application/json"]]

\* ----------------------------------------------------------------------
\* client.py: MethodAPIClient
\* ----------------------------------------------------------------------

NoClient == [made |-> FALSE, auth |-> NoAuth]

\* MethodAPIClient.__init__ with no arguments
MethodAPIClient(env) ==
    LET am == AuthManager(env)
    IN  IF am.raised THEN [raised |-> TRUE, exc |-> am.exc, client |-> NoClient]
        ELSE IF ~IsValid(am.auth)
        THEN [raised |-> TRUE,
              exc |-> Exc("AuthenticationError", <<"Authentication is not valid">>),
              client |-> NoClient]
        ELSE [raised |-> FALSE, exc |-> NoExc,
              client |-> [made |-> TRUE, auth |-> am.auth]]

\* an optional text: None (an unset variable, an argument not given), or
\* the text
Unset == [has |-> FALSE, val |-> <<>>]

Text(cs) == [has |-> TRUE, val |-> cs]

\* the defaults of MethodAPIClient.__init__
DefaultTimeout == 30

DefaultMaxRetries == 3

\* "https://rest.method.me/api/v1/": each slash is an element of its own
DefaultBaseUrl == <<"https:", "/", "/", "rest.method.me", "/", "api", "/", "v1", "/">>

\* str.rstrip("/") and str.lstrip("/")
RECURSIVE RStripSlash(_)
RStripSlash(cs) ==
    IF cs # <<>> /\ cs[Len(cs)] = "/"
    THEN RStripSlash(SubSeq(cs, 1, Len(cs) - 1)) ELSE cs

RECURSIVE LStripSlash(_)
LStripSlash(cs) == IF cs # <<>> /\ Head(cs) = "/" THEN LStripSlash(Tail(cs)) ELSE cs

\* os.getenv(name, default)
GetEnv(v, default) == IF v.has THEN v.val ELSE default

\* float(x) and int(x) of a value that is the text of an environment
\* variable or the number given as argument (the texts considered are made
\* of digits and letters, on which float and int accept the same literals)
ToNumber(v, number) ==
    IF v.has THEN PyInt(v.val) ELSE [raised |-> FALSE, val |-> number]

\* MethodAPIClient.__init__(base_url, timeout=..., max_retries=...) under
\* usable credentials: the configuration of the client. a holds the
\* arguments as the caller gave them, e the three configuration variables
ClientConfig(a, e) ==
    LET base_url == IF a.base_url.has /\ a.base_url.val # <<>>
                    THEN a.base_url.val
                    ELSE RStripSlash(GetEnv(e.base_url, DefaultBaseUrl))
        timeout == ToNumber(e.timeout,
                            IF a.timeout.has THEN a.timeout.val ELSE DefaultTimeout)
        max_retries == ToNumber(e.max_retries,
                                IF a.max_retries.has THEN a.max_retries.val
                                ELSE DefaultMaxRetries)
    IN  IF timeout.raised \/ max_retries.raised
        THEN [raised |-> TRUE, exc |-> Exc("ValueError", <<"could not convert">>),
              base_url |-> base_url, timeout |-> 0, max_retries |-> 0]
        ELSE [raised |-> FALSE, exc |-> NoExc, base_url |-> base_url,
              timeout |-> timeout.val, max_retries |-> max_retries.val]

\* request: endpoint = endpoint.lstrip("/"); url = f"{self.base_url}/{endpoint}"
RequestUrl(base_url, endpoint) == base_url \o <<"/">> \o LStripSlash(endpoint)

\* HTTP statuses the transport model answers with
Statuses == {200, 204, 400, 401, 403, 404, 413, 429, 500, 502, 503}

\* httpx Response.is_success
IsSuccess(status) == status \in 200..299

\* what one transport attempt ends with: a connection failure, a timeout,
\* or a response
Response(status, body, hdr) ==
    [kind |-> "response", status |-> status, body |-> body, hdr |-> hdr]

TransportFailure(kind) ==
    [kind |-> kind, status |-> 0, body |-> "empty", hdr |-> NoHeader]

TransportOutcomes ==
    {TransportFailure(k) : k \in {"ConnectError"} \cup TimeoutTypes}
      \cup {Response(s, b, NoHeader) : s \in Statuses \ {429}, b \in Bodies}
      \cup {Response(429, b, h) : b \in {"empty", "objErrMsg"}, h \in HeaderValues}

\* the normalized marker returned for 204 No Content
NoContentMarker == [kind |-> "dict", err |-> "absent", marker |-> TRUE]

NoJson == [kind |-> "none", err |-> "absent", marker |-> FALSE]

Raise(e) == [raised |-> TRUE, exc |-> e, val |-> NoJson, parsed |-> FALSE]

Return(v, parsed) == [raised |-> FALSE, exc |-> NoExc, val |-> v, parsed |-> parsed]

\* an except block that lets connection failures and timeouts through
\* unwrapped
ExceptHandler_RawNetwork(e) ==
    IF IsInstance(e, "MethodAPIError") \/ IsInstance(e, "TimeoutException")
         \/ IsInstance(e, "ConnectError")
    THEN Raise(e)
    ELSE Raise(Exc("MethodAPIError", HandleApiError(e).msg))

\* except Exception as e: a MethodAPIError is re-raised, anything else is
\* replaced by MethodAPIError(handle_api_error(e))
ExceptHandler(e) ==
    IF IsInstance(e, "MethodAPIError")
    THEN Raise(e)
    ELSE LET t == HandleApiError(e)
         IN  IF t.raised
             THEN Raise(Exc("AttributeError", <<"object has no attribute 'get'">>))
             ELSE Raise(Exc("MethodAPIError", t.msg))

\* a 429 branch that does not read the Retry-After header
RateLimitCheck_NoHeader(hdr) == RateLimitError(<<"Rate limit exceeded">>, NoneVal)

\* if response.status_code == 429: the exception raised inside the try
RateLimitCheck(hdr) ==
    IF hdr.present /\ hdr.val # <<>>
    THEN LET n == PyInt(hdr.val)
         IN  IF n.raised
             THEN Exc("ValueError", <<"invalid literal for int() with base 10: '",
                                      Join(hdr.val), "'">>)
             ELSE RateLimitError(<<"Rate limit exceeded">>, Some(n.val))
    ELSE RateLimitError(<<"Rate limit exceeded">>, NoneVal)

\* a body that decodes the response before looking at the 204 status
RequestBody_ParseFirst(o) ==
    IF o.kind # "response"
    THEN ExceptHandler(Exc(o.kind, <<"transport failure">>))
    ELSE IF o.status = 429
    THEN ExceptHandler(RateLimitCheck(o.hdr))
    ELSE IF ~IsSuccess(o.status)
    THEN ExceptHandler(HTTPStatusError(o.status, o.body, o.hdr))
    ELSE LET p == ParseJson(o.body)
         IN  IF p.raised
             THEN ExceptHandler(Exc("JSONDecodeError", <<"Expecting value">>))
             ELSE IF o.status = 204 THEN Return(NoContentMarker, TRUE)
             ELSE Return(p.val, TRUE)

\* the body of request: one transport attempt and the handling of what it
\* ends with, including the except block
RequestBody(o) ==
    IF o.kind # "response"
    THEN ExceptHandler(Exc(o.kind, <<"transport failure">>))
    ELSE IF o.status = 429
    THEN ExceptHandler(RateLimitCheck(o.hdr))
    ELSE IF ~IsSuccess(o.status)
    THEN ExceptHandler(HTTPStatusError(o.status, o.body, o.hdr))
    ELSE IF o.status = 204
    THEN Return(NoContentMarker, FALSE)
    ELSE LET p == ParseJson(o.body)
         IN  IF p.raised
             THEN ExceptHandler(Exc("JSONDecodeError", <<"Expecting value">>))
             ELSE Return(p.val, TRUE)

\* min and max of two numbers
Min(a, b) == IF a < b THEN a ELSE b

Max(a, b) == IF a > b THEN a ELSE b

\* the arguments of wait_exponential
WaitMultiplier == 1

WaitMin == 2

WaitMax == 10

\* wait_exponential(multiplier=1, min=2, max=10) after the failed attempt
\* attempt_number: multiplier * 2^n clamped to [min, max], where n is
\* attempt_number - 1 or attempt_number according to the tenacity release
\* installed (the project pins none)
WaitExponential(attempt_number) ==
    {Max(Max(0, WaitMin), Min(WaitMultiplier * 2 ^ n, WaitMax)) :
        n \in {attempt_number - 1, attempt_number}}

\* retry_if_exception_type((httpx.TimeoutException, httpx.ConnectError))
ShouldRetry(e) == IsInstance(e, "TimeoutException") \/ IsInstance(e, "ConnectError")

\* ----------------------------------------------------------------------
\* tools: the handlers
\* ----------------------------------------------------------------------

\* the tool modules, each with its own module-level _client
Families == {"tables", "files", "user", "events", "apikeys"}

\* a tool: its module, whether it goes through MethodAPIClient.request
\* ("client") or calls httpx itself ("direct"), and whether its input has
\* a response_format
Tool(name, family, via, hasFormat) ==
    [name |-> name, family |-> family, via |-> via, hasFormat |-> hasFormat]

Tools ==
    {Tool("method_tables_query", "tables", "client", TRUE),
     Tool("method_tables_create", "tables", "client", TRUE),
     Tool("method_tables_get", "tables", "client", TRUE),
     Tool("method_tables_update", "tables", "client", FALSE),
     Tool("method_tables_delete", "tables", "client", FALSE),
     Tool("method_files_upload", "files", "direct", FALSE),
     Tool("method_files_list", "files", "client", TRUE),
     Tool("method_files_download", "files", "direct", FALSE),
     Tool("method_files_get_url", "files", "direct", FALSE),
     Tool("method_files_update_link", "files", "client", FALSE),
     Tool("method_files_delete", "files", "client", FALSE),
     Tool("method_user_get_info", "user", "client", TRUE),
     Tool("method_events_create_routine", "events", "client", FALSE),
     Tool("method_events_list_routines", "events", "client", TRUE),
     Tool("method_events_get_routine", "events", "client", TRUE),
     Tool("method_events_delete_routine", "events", "client", FALSE),
     Tool("method_apikeys_create", "apikeys", "client", FALSE),
     Tool("method_apikeys_list", "apikeys", "client", TRUE),
     Tool("method_apikeys_update", "apikeys", "client", FALSE),
     Tool("method_apikeys_delete", "apikeys", "client", FALSE)}

\* ResponseFormat; a tool without the selector always answers in JSON
FormatsOf(tool) == IF tool.hasFormat THEN {"json", "markdown"} ELSE {"json"}

\* conditions of the validated input that the handlers branch on
InputsOf(tool) ==
    CASE tool.name = "method_files_upload"
            -> {"ok", "badBase64", "atLimit", "tooBig", "badRecordId"}
      [] tool.name = "method_files_update_link" -> {"ok", "badRecordId"}
      [] tool.name = "method_apikeys_update"    -> {"ok", "noFields"}
      [] OTHER -> {"ok"}

NoTool == Tool("none", "none", "none", FALSE)

NoCall == [tool |-> NoTool, fmt |-> "json", input |-> "ok"]

\* what a tool invocation ends with: a returned string (the JSON envelope,
\* a Markdown document or a plain line of text), or an exception leaving
\* the handler; caught is the exception the handler's except block received
NoResult == [kind |-> "none", form |-> "none", success |-> FALSE, text |-> <<>>,
             caught |-> NoExc]

Propagate(e) == [kind |-> "raise", form |-> "none", success |-> FALSE, text |-> <<>>,
                 caught |-> e]

Plain(text, e) == [kind |-> "string", form |-> "plain", success |-> FALSE,
                   text |-> text, caught |-> e]

\* utils.format_json_response(data, success, message)
FormatJsonResponse(success, text) ==
    [kind |-> "string", form |-> "envelope", success |-> success, text |-> text,
     caught |-> NoExc]

Markdown(text) == [kind |-> "string", form |-> "markdown", success |-> TRUE,
                   text |-> text, caught |-> NoExc]

\* a handler whose except clause only names the client's own errors
Boundary_NarrowCatch(e, fmt) ==
    IF IsInstance(e, "MethodAPIError")
    THEN Plain(HandleApiError(e).msg, e)
    ELSE Propagate(e)

\* a handler that wraps the message in the error envelope in JSON mode
Boundary_Envelope(e, fmt) ==
    IF fmt = "json"
    THEN [kind |-> "string", form |-> "envelope", success |-> FALSE,
          text |-> HandleApiError(e).msg, caught |-> e]
    ELSE Plain(HandleApiError(e).msg, e)

\* except Exception as e: error_msg = handle_api_error(e); return error_msg
Boundary(e, fmt) ==
    LET t == HandleApiError(e)
    IN  IF t.raised
        THEN Propagate(Exc("AttributeError", <<"object has no attribute 'get'">>))
        ELSE Plain(t.msg, e)

AttributeError == Exc("AttributeError", <<"object has no attribute 'get'">>)

\* int(params.link_record_id) on an id that is not a number
RecordIdError == Exc("ValueError", <<"invalid literal for int() with base 10">>)

\* whether the handler reads members of the returned value with .get/.items
\* (which a list or a string does not have)
NeedsDict(tool, fmt) ==
    \/ tool.name \in {"method_tables_query", "method_files_update_link",
                      "method_events_create_routine", "method_events_list_routines",
                      "method_apikeys_create", "method_apikeys_list"}
    \/ /\ tool.name \in {"method_tables_get", "method_user_get_info",
                         "method_events_get_routine"}
       /\ fmt = "markdown"

\* the delete tools
DeleteTools == {"method_tables_delete", "method_files_delete",
                "method_events_delete_routine", "method_apikeys_delete"}

\* handlers whose deletes report success whatever the API answered
ToolFinish_LenientDelete(c, r) ==
    IF c.tool.name \in DeleteTools
    THEN FormatJsonResponse(TRUE, <<c.tool.name>>)
    ELSE IF r.raised
    THEN Boundary(r.exc, c.fmt)
    ELSE IF NeedsDict(c.tool, c.fmt) /\ r.val.kind # "dict"
    THEN Boundary(AttributeError, c.fmt)
    ELSE IF c.tool.name = "method_files_list" /\ r.val.kind \notin {"list", "dict"}
    THEN Boundary(AttributeError, c.fmt)
    ELSE IF c.fmt = "markdown"
    THEN Markdown(<<"# ", c.tool.name>>)
    ELSE FormatJsonResponse(TRUE, <<c.tool.name>>)

\* the handler after client.get/post/... returned or raised
ToolFinish(c, r) ==
    IF r.raised
    THEN Boundary(r.exc, c.fmt)
    ELSE IF NeedsDict(c.tool, c.fmt) /\ r.val.kind # "dict"
    THEN Boundary(AttributeError, c.fmt)
    ELSE IF c.tool.name = "method_files_list" /\ r.val.kind \notin {"list", "dict"}
    THEN Boundary(AttributeError, c.fmt)
    ELSE IF c.fmt = "markdown"
    THEN Markdown(<<"# ", c.tool.name>>)
    ELSE FormatJsonResponse(TRUE, <<c.tool.name>>)

\* the handlers that call httpx themselves, after the transport answered
DirectFinish(c, o) ==
    IF o.kind # "response"
    THEN Boundary(Exc(o.kind, <<"transport failure">>), c.fmt)
    ELSE IF c.tool.name = "method_files_upload" /\ o.status = 413
    THEN FormatJsonResponse(FALSE,
            <<"File size exceeds 50MB limit or storage quota (10GB) exceeded">>)
    ELSE IF ~IsSuccess(o.status)
    THEN Boundary(HTTPStatusError(o.status, o.body, o.hdr), c.fmt)
    ELSE IF c.tool.name = "method_files_download"
    THEN FormatJsonResponse(TRUE, <<c.tool.name>>)
    ELSE LET p == ParseJson(o.body)
         IN  IF p.raised
             THEN Boundary(Exc("JSONDecodeError", <<"Expecting value">>), c.fmt)
             ELSE IF c.tool.name = "method_files_upload" /\ p.val.kind # "dict"
             THEN Boundary(AttributeError, c.fmt)
             ELSE FormatJsonResponse(TRUE, <<c.tool.name>>)

\* 50 * 1024 * 1024, the largest decoded upload in bytes
MaxFileSize == 52428800

\* len(file_bytes) of the decoded content under each input condition
FileSize(input) ==
    CASE input = "tooBig"  -> MaxFileSize + 1
      [] input = "atLimit" -> MaxFileSize
      [] OTHER             -> 1

\* an upload handler without the size check
ToolStart_NoSizeCheck(c) ==
    IF c.tool.name = "method_files_upload" /\ c.input = "badBase64"
    THEN FormatJsonResponse(FALSE, <<"Invalid base64 content: ">>)
    ELSE IF c.input = "badRecordId"
    THEN Boundary(RecordIdError, c.fmt)
    ELSE IF c.input = "noFields"
    THEN Plain(<<"Error: ", "No fields provided for update. ">>, NoExc)
    ELSE NoResult

\* the handler from its first statement up to its network call: the result
\* it returns before any request, or NoResult when it goes on to the request
ToolStart(c) ==
    IF /\ c.tool.name = "method_files_upload"
       /\ c.input # "badBase64"
       /\ FileSize(c.input) > MaxFileSize
    THEN FormatJsonResponse(FALSE, <<"File size (", "bytes) exceeds 50MB limit (">>)
    ELSE IF c.tool.name = "method_files_upload" /\ c.input = "badBase64"
    THEN FormatJsonResponse(FALSE, <<"Invalid base64 content: ">>)
    ELSE IF c.input = "badRecordId"
    THEN Boundary(RecordIdError, c.fmt)
    ELSE IF c.input = "noFields"
    THEN Plain(<<"Error: ", "No fields provided for update. ">>, NoExc)
    ELSE NoResult

\* ----------------------------------------------------------------------
\* utils.py and the list tools: pagination metadata
\* ----------------------------------------------------------------------

\* the largest number of records in a response, the largest top and skip
\* a caller passes, the largest total or count the API states
MaxRecords == 3

MaxTop == 3

MaxSkip == 2

MaxTotal == 6

\* the page size a handler assumes when top is not given
TablesDefaultLimit == 10

ListDefaultLimit == 20

\* a key of a response object: absent, null, or an integer
Absent == [kind |-> "absent", val |-> 0]

Null == [kind |-> "null", val |-> 0]

IntField(n) == [kind |-> "int", val |-> n]

\* dict.get(key, default): the default only stands in for an absent key
Get(field, default) ==
    IF field.kind = "absent" THEN default
    ELSE IF field.kind = "null" THEN NoneVal
    ELSE Some(field.val)

\* `x or default` on an optional integer: None and 0 are falsy
OrDefault(x, default) == IF x.has /\ x.val # 0 THEN x.val ELSE default

\* format_pagination_info with has_more true as soon as total reaches the
\* end of the page
FormatPaginationInfo_AtLeast(total, count, offset, limit) ==
    LET has_more == IF total.has THEN total.val >= offset + count ELSE count = limit
    IN  [total |-> total, count |-> count, offset |-> offset, limit |-> limit,
         has_more |-> has_more,
         next_offset |-> IF has_more THEN Some(offset + count) ELSE NoneVal]

\* format_pagination_info(total, count, offset, limit)
FormatPaginationInfo(total, count, offset, limit) ==
    LET has_more == IF total.has THEN total.val > offset + count ELSE count = limit
    IN  [total |-> total, count |-> count, offset |-> offset, limit |-> limit,
         has_more |-> has_more,
         next_offset |-> IF has_more THEN Some(offset + count) ELSE NoneVal]

\* an API response to a list request: a bare array of n records, or an
\* object whose "value" holds n records and which may carry "count",
\* "@odata.count" and "nextLink"
ListResponse(n) ==
    [isList |-> TRUE, n |-> n, count |-> Absent, total |-> Absent, link |-> FALSE]

DictResponse(n, count, total, link) ==
    [isList |-> FALSE, n |-> n, count |-> count, total |-> total, link |-> link]

\* the pagination dict a handler ends with: the keys of
\* format_pagination_info, has_more as the handler left it, and next_link
\* ("absent" when the handler sets no such key, "null" when it sets None)
PageResult(info, has_more, next_link) ==
    [ok |-> TRUE, total |-> info.total, count |-> info.count, offset |-> info.offset,
     limit |-> info.limit, has_more |-> has_more, next_offset |-> info.next_offset,
     next_link |-> next_link]

\* the handler failed before it had a pagination dict (response.get on a
\* list raises AttributeError, which the handler's except returns as text)
PageFailed ==
    [ok |-> FALSE, total |-> NoneVal, count |-> 0, offset |-> 0, limit |-> 0,
     has_more |-> FALSE, next_offset |-> NoneVal, next_link |-> "absent"]

NoPagination == PageFailed

\* method_tables_query: from the response to the pagination dict
TablesQueryPagination(response, top, skip) ==
    IF response.isList THEN PageFailed
    ELSE LET count == Get(response.count, Some(response.n)).val
             next_link == response.link
             has_more == next_link
             info == FormatPaginationInfo(NoneVal, count, OrDefault(skip, 0),
                                          OrDefault(top, TablesDefaultLimit))
         IN  PageResult(info, has_more, IF next_link THEN "link" ELSE "null")

\* method_files_list: from the response to the pagination dict
FilesListPagination(response, top, skip) ==
    LET limit == OrDefault(top, ListDefaultLimit)
        count == IF response.isList THEN response.n
                 ELSE Get(response.count, Some(response.n)).val
        total == IF response.isList THEN NoneVal ELSE Get(response.total, NoneVal)
        next_link == ~response.isList /\ response.link
        has_more == IF response.isList THEN count = limit ELSE next_link
        info == FormatPaginationInfo(total, count, OrDefault(skip, 0), limit)
    IN  IF response.isList THEN PageResult(info, has_more, "absent")
        ELSE IF next_link THEN PageResult(info, has_more, "link")
        ELSE PageResult(info, info.has_more, "absent")

\* method_events_list_routines: from the response to the pagination dict
EventsListRoutinesPagination(response, top, skip) ==
    IF response.isList THEN PageFailed
    ELSE LET total == Get(response.total, Some(response.n))
             info == FormatPaginationInfo(total, response.n, OrDefault(skip, 0),
                                          OrDefault(top, ListDefaultLimit))
         IN  PageResult(info, info.has_more, "absent")

\* method_apikeys_list: from the response to the pagination dict
ApikeysListPagination(response, top, skip) ==
    IF response.isList THEN PageFailed
    ELSE LET total == Get(response.total, Some(response.n))
             info == FormatPaginationInfo(total, response.n, OrDefault(skip, 0),
                                          OrDefault(top, ListDefaultLimit))
         IN  PageResult(info, info.has_more, "absent")

\* str() of an optional integer, as an f-string renders it
Render(x) == IF x.has THEN ToString(x.val) ELSE "None"

\* method_tables_query in Markdown mode: the footer under a non-empty page
TablesQueryFooter(response, top, skip) ==
    LET p == TablesQueryPagination(response, top, skip)
        start_record == OrDefault(skip, 0) + 1
        end_record == OrDefault(skip, 0) + response.n
    IN  IF ~p.ok \/ response.n = 0 THEN <<>>
        ELSE <<"\n\n**Pagination**: Showing records ", ToString(start_record), "-",
               ToString(end_record)>>
               \o (IF p.has_more
                   THEN <<" | More records available | Next offset: ", Render(p.next_offset)>>
                   ELSE <<" | No more records">>)

\* method_files_list in Markdown mode: the footer under a non-empty page
FilesListFooter(response, top, skip) ==
    LET p == FilesListPagination(response, top, skip)
        start_file == OrDefault(skip, 0) + 1
        end_file == OrDefault(skip, 0) + response.n
    IN  IF response.n = 0 THEN <<>>
        ELSE <<"\n\n**Pagination**: Showing files ", ToString(start_file), "-",
               ToString(end_file)>>
               \o (IF p.total.has THEN <<" of ", ToString(p.total.val)>> ELSE <<>>)
               \o (IF p.has_more
                   THEN <<" | More files available | Next offset: ", Render(p.next_offset)>>
                   ELSE <<" | No more files">>)

\* method_events_list_routines in Markdown mode: the footer under a
\* non-empty page; `params.skip or 0 + 1` is `params.skip or (0 + 1)`
EventsListRoutinesFooter(response, top, skip) ==
    LET p == EventsListRoutinesPagination(response, top, skip)
    IN  IF ~p.ok \/ response.n = 0 THEN <<>>
        ELSE <<"\n\n**Pagination**: Showing routines ", ToString(OrDefault(skip, 0 + 1)), "-",
               ToString(OrDefault(skip, 0 + response.n)), " of ", Render(p.total)>>
               \o (IF p.has_more THEN <<" | Next offset: ", Render(p.next_offset)>> ELSE <<>>)

\* method_apikeys_list in Markdown mode: the footer under a non-empty page
ApikeysListFooter(response, top, skip) ==
    LET p == ApikeysListPagination(response, top, skip)
    IN  IF ~p.ok \/ response.n = 0 THEN <<>>
        ELSE <<"\n\n**Pagination**: Showing keys ", ToString(OrDefault(skip, 0 + 1)), "-",
               ToString(OrDefault(skip, 0 + response.n)), " of ", Render(p.total)>>
               \o (IF p.has_more THEN <<" | Next offset: ", Render(p.next_offset)>> ELSE <<>>)
               \o <<"\n\n**Security Note**: For security reasons, actual API keys are masked. ">>

\* the Markdown footer of a paginated tool
Footer(p) ==
    IF p.tool = "method_tables_query"
    THEN TablesQueryFooter(p.response, p.top, p.skip)
    ELSE IF p.tool = "method_files_list"
    THEN FilesListFooter(p.response, p.top, p.skip)
    ELSE IF p.tool = "method_events_list_routines"
    THEN EventsListRoutinesFooter(p.response, p.top, p.skip)
    ELSE ApikeysListFooter(p.response, p.top, p.skip)

\* the paginated tools
PagedTools == {"method_tables_query", "method_files_list",
               "method_events_list_routines", "method_apikeys_list"}

\* the pagination dict of a paginated tool
Paginate(p) ==
    IF p.tool = "method_tables_query"
    THEN TablesQueryPagination(p.response, p.top, p.skip)
    ELSE IF p.tool = "method_files_list"
    THEN FilesListPagination(p.response, p.top, p.skip)
    ELSE IF p.tool = "method_events_list_routines"
    THEN EventsListRoutinesPagination(p.response, p.top, p.skip)
    ELSE ApikeysListPagination(p.response, p.top, p.skip)

\* no pagination computation in hand
NoPage ==
    [tool |-> "none", response |-> ListResponse(0), top |-> NoneVal, skip |-> NoneVal]

\* ----------------------------------------------------------------------
\* utils.py: format_json_response, and reading its output back
\* ----------------------------------------------------------------------

\* JSON-safe values: null, booleans, integers, strings, arrays, objects
JValue(t, b, n, s, l, o) == [t |-> t, b |-> b, n |-> n, s |-> s, l |-> l, o |-> o]

JNull == JValue("null", FALSE, 0, "", <<>>, <<>>)

JBool(b) == JValue("bool", b, 0, "", <<>>, <<>>)

JInt(n) == JValue("int", FALSE, n, "", <<>>, <<>>)

JStr(s) == JValue("str", FALSE, 0, s, <<>>, <<>>)

JList(l) == JValue("list", FALSE, 0, "", l, <<>>)

\* an object: o maps each of its keys to a value
JObj(o) == JValue("obj", FALSE, 0, "", <<>>, o)

\* the tokens of a JSON text
Tok(k) == [k |-> k, n |-> 0, s |-> ""]

TokInt(n) == [k |-> "int", n |-> n, s |-> ""]

TokStr(s) == [k |-> "str", n |-> 0, s |-> s]

RECURSIVE Dumps(_), DumpsItems(_), DumpsMembers(_, _)

\* json.dumps(v): the text, token by token
Dumps(v) ==
    CASE v.t = "null" -> <<Tok("null")>>
      [] v.t = "bool" -> <<Tok(IF v.b THEN "true" ELSE "false")>>
      [] v.t = "int"  -> <<TokInt(v.n)>>
      [] v.t = "str"  -> <<TokStr(v.s)>>
      [] v.t = "list" -> <<Tok("[")>> \o DumpsItems(v.l) \o <<Tok("]")>>
      [] v.t = "obj"  -> <<Tok("{")>> \o DumpsMembers(v.o, DOMAIN v.o) \o <<Tok("}")>>

DumpsItems(l) ==
    IF l = <<>> THEN <<>>
    ELSE Dumps(Head(l)) \o (IF Len(l) > 1 THEN <<Tok(",")>> ELSE <<>>)
            \o DumpsItems(Tail(l))

DumpsMembers(o, keys) ==
    IF keys = {} THEN <<>>
    ELSE LET k == CHOOSE x \in keys : TRUE
         IN  <<TokStr(k), Tok(":")>> \o Dumps(o[k])
                \o (IF keys \ {k} # {} THEN <<Tok(",")>> ELSE <<>>)
                \o DumpsMembers(o, keys \ {k})

\* what a parse gives: the value and the tokens after it, or a failure
Parsed(v, rest) == [ok |-> TRUE, val |-> v, rest |-> rest]

ParseFailed == [ok |-> FALSE, val |-> JNull, rest |-> <<>>]

RECURSIVE ParseValue(_), ParseItems(_, _), ParseMembers(_, _)

\* json.loads, one value from the head of the tokens
ParseValue(ts) ==
    IF ts = <<>> THEN ParseFailed
    ELSE LET h == Head(ts)
         IN  CASE h.k = "null"  -> Parsed(JNull, Tail(ts))
               [] h.k = "true"  -> Parsed(JBool(TRUE), Tail(ts))
               [] h.k = "false" -> Parsed(JBool(FALSE), Tail(ts))
               [] h.k = "int"   -> Parsed(JInt(h.n), Tail(ts))
               [] h.k = "str"   -> Parsed(JStr(h.s), Tail(ts))
               [] h.k = "["     -> ParseItems(Tail(ts), <<>>)
               [] h.k = "{"     -> ParseMembers(Tail(ts), <<>>)
               [] OTHER         -> ParseFailed

ParseItems(ts, acc) ==
    IF ts = <<>> THEN ParseFailed
    ELSE IF Head(ts).k = "]" THEN Parsed(JList(acc), Tail(ts))
    ELSE IF Head(ts).k = "," THEN ParseItems(Tail(ts), acc)
    ELSE LET p == ParseValue(ts)
         IN  IF p.ok THEN ParseItems(p.rest, Append(acc, p.val)) ELSE ParseFailed

ParseMembers(ts, acc) ==
    IF ts = <<>> THEN ParseFailed
    ELSE IF Head(ts).k = "}" THEN Parsed(JObj(acc), Tail(ts))
    ELSE IF Head(ts).k = "," THEN ParseMembers(Tail(ts), acc)
    ELSE IF Len(ts) < 3 \/ ts[1].k # "str" \/ ts[2].k # ":" THEN ParseFailed
    ELSE LET p == ParseValue(SubSeq(ts, 3, Len(ts)))
         IN  IF p.ok THEN ParseMembers(p.rest, (ts[1].s :> p.val) @@ acc)
             ELSE ParseFailed

\* json.loads(text)
Loads(ts) ==
    LET p == ParseValue(ts)
    IN  IF p.ok /\ p.rest = <<>> THEN p ELSE ParseFailed

\* an optional message: None, or the text
NoMessage == [has |-> FALSE, val |-> ""]

Message(s) == [has |-> TRUE, val |-> s]

\* format_json_response(data, success, message): the text it returns
JsonResponse(data, success, message) ==
    LET head == IF message.has /\ message.val # ""
                THEN ("success" :> JBool(success)) @@ ("message" :> JStr(message.val))
                ELSE ("success" :> JBool(success))
    IN  IF data.t = "obj" /\ "error" \in DOMAIN data.o
        THEN Dumps(JObj(head @@ ("error" :> data.o["error"])))
        ELSE Dumps(JObj(head @@ ("data" :> data)))

\* no function applied on its own
NoArg == [fn |-> "none"]

NoRet == [fn |-> "none"]

\* nothing constructed from the environment on its own
NoBuilt ==
    [manager |-> [raised |-> FALSE, exc |-> NoExc, auth |-> NoAuth],
     key |-> [raised |-> FALSE, exc |-> NoExc, auth |-> NoAuth],
     headers |-> [raised |-> FALSE, exc |-> NoExc, headers |-> NoHeaders],
     client |-> [raised |-> FALSE, exc |-> NoExc, client |-> NoClient]]

\* ----------------------------------------------------------------------
\* State
\* ----------------------------------------------------------------------

VARIABLES
    env,        \* the credential variables of the process environment
    clients,    \* per tool module, its _client (NoClient while None)
    pc,         \* "idle", "request" (a transport attempt is in flight), "done"
    call,       \* the invocation in progress: tool, format, input condition
    attempts,   \* transport attempts made by the request in progress
    log,        \* what each of those attempts ended with
    reqOut,     \* what MethodAPIClient.request returned or raised
    reqCalled,  \* whether the invocation went through MethodAPIClient.request
    result,     \* what the tool invocation ended with
    exc,        \* an exception handed to handle_api_error on its own
    out,        \* what handle_api_error made of exc
    page,       \* the input of a pagination computation on its own
    pagination, \* the pagination metadata computed from page
    built,      \* what constructing the credentials from env on its own gave
    arg,        \* the arguments of a function applied on its own
    ret,        \* what that function returned
    sent,       \* the headers of each request the invocation in progress sent
    lastFailed, \* the module whose client construction failed most recently
    waits       \* the seconds request slept before each retry of the invocation

vars == <<env, clients, pc, call, attempts, log, reqOut, reqCalled, result, exc, out,
          page, pagination, built, arg, ret, sent, lastFailed, waits>>

NoOut == [raised |-> FALSE, msg |-> <<>>]

NoReqOut == Return(NoJson, FALSE)

Init ==
    /\ env \in Envs
    /\ clients = [f \in Families |-> NoClient]
    /\ pc = "idle"
    /\ call = NoCall
    /\ attempts = 0
    /\ log = <<>>
    /\ reqOut = NoReqOut
    /\ reqCalled = FALSE
    /\ result = NoResult
    /\ exc = NoExc
    /\ out = NoOut
    /\ page = NoPage
    /\ pagination = NoPagination
    /\ built = NoBuilt
    /\ arg = NoArg
    /\ ret = NoRet
    /\ sent = <<>>
    /\ lastFailed = "none"
    /\ waits = <<>>

\* dict.pop(key, None)
Pop(h, key) == [n \in (DOMAIN h) \ {key} |-> h[n]]

\* headers that are computed once, from the environment, and kept
RequestHeaders_FromEnv(client) == GetHeaders(AuthManager(env).auth).headers

\* MethodAPIClient._get_client: the headers of the httpx client that request
\* opens for each call
RequestHeaders(client) == GetHeaders(client.auth).headers

\* the headers a handler that calls httpx itself passes: those of
\* client.auth_manager.get_headers(), without Content-Type for the
\* multipart upload
DirectHeaders(tool, client) ==
    IF tool.name = "method_files_upload"
    THEN Pop(GetHeaders(client.auth).headers, "ContentType")
    ELSE GetHeaders(client.auth).headers

\* a get_client that checks the environment again before it hands out the
\* module's client
GetClient_Revalidate(family) ==
    IF clients[family].made /\ ~MethodAPIClient(env).raised
    THEN [raised |-> FALSE, exc |-> NoExc, client |-> clients[family]]
    ELSE MethodAPIClient(env)

\* a get_client that constructs a client on every call
GetClient_Fresh(family) == MethodAPIClient(env)

\* get_client() of the tool's module: the module's client, constructing it
\* on first use
GetClient(family) ==
    IF clients[family].made
    THEN [raised |-> FALSE, exc |-> NoExc, client |-> clients[family]]
    ELSE MethodAPIClient(env)

\* a tool is invoked: the handler runs up to its network call
Invoke(t, fmt, input) ==
    /\ pc = "idle"
    /\ LET c == [tool |-> t, fmt |-> fmt, input |-> input]
           g == GetClient(t.family)
       IN  /\ call' = c
           /\ IF g.raised
              THEN /\ clients' = clients
                   /\ lastFailed' = t.family
                   /\ result' = Boundary(g.exc, fmt)
                   /\ pc' = "done"
              ELSE /\ clients' = [clients EXCEPT ![t.family] = g.client]
                   /\ lastFailed' = lastFailed
                   /\ result' = ToolStart(c)
                   /\ pc' = IF ToolStart(c).kind = "none" THEN "request" ELSE "done"
    /\ UNCHANGED <<env, attempts, log, reqOut, reqCalled, exc, out, page, pagination, built,
                   arg, ret, sent, waits>>

\* the transport answers an attempt of MethodAPIClient.request: the attempt
\* is retried, or request ends and the handler runs to its return
ClientRespond(o) ==
    /\ pc = "request"
    /\ call.tool.via = "client"
    /\ LET r == RequestBody(o)
       IN  /\ attempts' = attempts + 1
           /\ log' = Append(log, o)
           /\ sent' = Append(sent, RequestHeaders(clients[call.tool.family]))
           /\ reqCalled' = TRUE
           /\ IF r.raised /\ ShouldRetry(r.exc) /\ attempts + 1 < MaxAttempts
              THEN /\ pc' = "request"
                   /\ \E w \in WaitExponential(attempts + 1) : waits' = Append(waits, w)
                   /\ UNCHANGED <<reqOut, result>>
              ELSE /\ pc' = "done"
                   /\ waits' = waits
                   /\ reqOut' = r
                   /\ result' = ToolFinish(call, r)
    /\ UNCHANGED <<env, clients, call, exc, out, page, pagination, built, arg, ret,
                   lastFailed>>

\* the transport answers a handler that called httpx itself
DirectRespond(o) ==
    /\ pc = "request"
    /\ call.tool.via = "direct"
    /\ attempts' = attempts + 1
    /\ log' = Append(log, o)
    /\ sent' = Append(sent, DirectHeaders(call.tool, clients[call.tool.family]))
    /\ result' = DirectFinish(call, o)
    /\ pc' = "done"
    /\ UNCHANGED <<env, clients, call, reqOut, reqCalled, exc, out, page, pagination, built,
                   arg, ret, lastFailed, waits>>

\* the result is handed to the caller; the next invocation may start
Finish ==
    /\ pc = "done"
    /\ pc' = "idle"
    /\ call' = NoCall
    /\ attempts' = 0
    /\ log' = <<>>
    /\ sent' = <<>>
    /\ reqOut' = NoReqOut
    /\ reqCalled' = FALSE
    /\ result' = NoResult
    /\ waits' = <<>>
    /\ UNCHANGED <<env, clients, exc, out, page, pagination, built, arg, ret, lastFailed>>

Next ==
    \/ \E t \in Tools : \E fmt \in FormatsOf(t) : \E input \in InputsOf(t) :
          Invoke(t, fmt, input)
    \/ \E o \in TransportOutcomes : ClientRespond(o)
    \/ \E o \in TransportOutcomes : DirectRespond(o)
    \/ Finish

Spec == Init /\ [][Next]_vars

\* ----------------------------------------------------------------------
\* handle_api_error on its own: every exception it can be handed
\* ----------------------------------------------------------------------

ExcMessages == {<<>>, <<"some message">>}

ExceptionInputs ==
    {HTTPStatusError(s, b, h) : s \in Statuses, b \in Bodies, h \in HeaderValues}
      \cup {Exc(t, m) : t \in (ExceptionTypes \ {"HTTPStatusError", "RateLimitError"}),
                        m \in ExcMessages}
      \cup {RateLimitError(m, ra) : m \in ExcMessages, ra \in {NoneVal, Some(0), Some(30)}}

InitTranslate ==
    /\ env = Env(<<>>, <<>>, <<>>, <<>>)
    /\ clients = [f \in Families |-> NoClient]
    /\ pc = "idle"
    /\ call = NoCall
    /\ attempts = 0
    /\ log = <<>>
    /\ reqOut = NoReqOut
    /\ reqCalled = FALSE
    /\ result = NoResult
    /\ exc \in ExceptionInputs
    /\ out = NoOut
    /\ page = NoPage
    /\ pagination = NoPagination
    /\ built = NoBuilt
    /\ arg = NoArg
    /\ ret = NoRet
    /\ sent = <<>>
    /\ lastFailed = "none"
    /\ waits = <<>>

\* handle_api_error(exc) is called
Translate ==
    /\ pc = "idle"
    /\ pc' = "translated"
    /\ out' = HandleApiError(exc)
    /\ UNCHANGED <<env, clients, call, attempts, log, reqOut, reqCalled, result, exc,
                 page, pagination, built, arg, ret, sent, lastFailed, waits>>

NextTranslate == Translate

SpecTranslate == InitTranslate /\ [][NextTranslate]_vars

\* ----------------------------------------------------------------------
\* the pagination of the list tools on its own: every response shape
\* ----------------------------------------------------------------------

\* top and skip as the input models admit them: top >= 1, skip >= 0, both
\* optional
TopValues == {NoneVal} \cup {Some(n) : n \in 1..MaxTop}

SkipValues == {NoneVal} \cup {Some(n) : n \in 0..MaxSkip}

ListResponses ==
    {ListResponse(n) : n \in 0..MaxRecords}
      \cup {DictResponse(n, c, t, l) :
              n \in 0..MaxRecords,
              c \in {Absent} \cup {IntField(k) : k \in 0..MaxRecords},
              t \in {Absent, Null} \cup {IntField(k) : k \in 0..MaxTotal},
              l \in BOOLEAN}

PageInputs ==
    {[tool |-> t, response |-> r, top |-> top, skip |-> skip] :
        t \in PagedTools, r \in ListResponses, top \in TopValues, skip \in SkipValues}

InitPage ==
    /\ env = Env(<<>>, <<>>, <<>>, <<>>)
    /\ clients = [f \in Families |-> NoClient]
    /\ pc = "idle"
    /\ call = NoCall
    /\ attempts = 0
    /\ log = <<>>
    /\ reqOut = NoReqOut
    /\ reqCalled = FALSE
    /\ result = NoResult
    /\ exc = NoExc
    /\ out = NoOut
    /\ page \in PageInputs
    /\ pagination = NoPagination
    /\ built = NoBuilt
    /\ arg = NoArg
    /\ ret = NoRet
    /\ sent = <<>>
    /\ lastFailed = "none"
    /\ waits = <<>>

\* the handler computes the pagination of the response it received, and
\* the footer it writes under the page in Markdown mode
ListPage ==
    /\ pc = "idle"
    /\ pc' = "paged"
    /\ pagination' = Paginate(page)
    /\ ret' = [fn |-> "footer", footer |-> Footer(page)]
    /\ UNCHANGED <<env, clients, call, attempts, log, reqOut, reqCalled, result, exc, out,
                   page, built, arg, sent, lastFailed, waits>>

NextPage == ListPage

SpecPage == InitPage /\ [][NextPage]_vars

\* format_pagination_info on its own: integer arguments, negative ones too
FormatInputs ==
    {[total |-> t, count |-> c, offset |-> o, limit |-> l] :
        t \in {NoneVal} \cup {Some(k) : k \in -1..MaxTotal},
        c \in -1..MaxRecords, o \in -1..MaxSkip, l \in -1..MaxTop}

InitFormat ==
    /\ env = Env(<<>>, <<>>, <<>>, <<>>)
    /\ clients = [f \in Families |-> NoClient]
    /\ pc = "idle"
    /\ call = NoCall
    /\ attempts = 0
    /\ log = <<>>
    /\ reqOut = NoReqOut
    /\ reqCalled = FALSE
    /\ result = NoResult
    /\ exc = NoExc
    /\ out = NoOut
    /\ page \in FormatInputs
    /\ pagination = NoPagination
    /\ built = NoBuilt
    /\ arg = NoArg
    /\ ret = NoRet
    /\ sent = <<>>
    /\ lastFailed = "none"
    /\ waits = <<>>

\* format_pagination_info(**page) is called
FormatPage ==
    /\ pc = "idle"
    /\ pc' = "formatted"
    /\ pagination' = FormatPaginationInfo(page.total, page.count, page.offset, page.limit)
    /\ UNCHANGED <<env, clients, call, attempts, log, reqOut, reqCalled, result, exc, out,
                   page, built, arg, ret, sent, lastFailed, waits>>

NextFormat == FormatPage

SpecFormat == InitFormat /\ [][NextFormat]_vars

\* ----------------------------------------------------------------------
\* the credentials on their own: every environment
\* ----------------------------------------------------------------------

\* the longest API key, and the characters a key is made of
MaxKeyLen == 3

KeyChars == {" ", "a", "b"}

\* every setting of the four credential variables
AllEnvs ==
    {Env(k, c, s, u) : k \in SeqsUpTo(KeyChars, MaxKeyLen),
                       c \in {<<>>, <<"c">>}, s \in {<<>>, <<"s">>},
                       u \in {<<>>, <<"u">>}}

InitAuth ==
    /\ env \in AllEnvs
    /\ clients = [f \in Families |-> NoClient]
    /\ pc = "idle"
    /\ call = NoCall
    /\ attempts = 0
    /\ log = <<>>
    /\ reqOut = NoReqOut
    /\ reqCalled = FALSE
    /\ result = NoResult
    /\ exc = NoExc
    /\ out = NoOut
    /\ page = NoPage
    /\ pagination = NoPagination
    /\ built = NoBuilt
    /\ arg = NoArg
    /\ ret = NoRet
    /\ sent = <<>>
    /\ lastFailed = "none"
    /\ waits = <<>>

\* AuthManager(), APIKeyAuth(METHOD_API_KEY) with its get_headers(), and
\* MethodAPIClient() are constructed from the environment
Construct ==
    /\ pc = "idle"
    /\ pc' = "built"
    /\ built' = [manager |-> AuthManager(env),
                 key |-> APIKeyAuth(env.api_key),
                 headers |-> IF APIKeyAuth(env.api_key).raised
                             THEN NoBuilt.headers
                             ELSE GetHeaders(APIKeyAuth(env.api_key).auth),
                 client |-> MethodAPIClient(env)]
    /\ UNCHANGED <<env, clients, call, attempts, log, reqOut, reqCalled, result, exc, out,
                   page, pagination, arg, ret, sent, lastFailed, waits>>

NextAuth == Construct

SpecAuth == InitAuth /\ [][NextAuth]_vars

\* ----------------------------------------------------------------------
\* tool invocations of one process whose environment changes in between
\* ----------------------------------------------------------------------

\* the environments the process sees: no credentials, a blank key, two
\* different keys, and each OAuth2 configuration
ProcEnvs == {Env(<<>>, <<>>, <<>>, <<>>),
             Env(<<" ">>, <<>>, <<>>, <<>>),
             Env(<<" ", "k", " ">>, <<"c">>, <<"s">>, <<>>),
             Env(<<"j">>, <<>>, <<>>, <<>>),
             Env(<<>>, <<"c">>, <<"s">>, <<"u">>),
             Env(<<>>, <<"c">>, <<"s">>, <<>>),
             Env(<<>>, <<"c">>, <<>>, <<>>)}

\* the transport answers considered there
ProcOutcomes == {TransportFailure("ConnectError"),
                 Response(200, "obj", NoHeader),
                 Response(404, "objErrMsg", NoHeader)}

\* the credential variables are changed between two invocations
SetEnv(e) ==
    /\ pc = "idle"
    /\ e # env
    /\ env' = e
    /\ UNCHANGED <<clients, pc, call, attempts, log, reqOut, reqCalled, result, exc, out,
                   page, pagination, built, arg, ret, sent, lastFailed, waits>>

InitEnv ==
    /\ env \in ProcEnvs
    /\ clients = [f \in Families |-> NoClient]
    /\ pc = "idle"
    /\ call = NoCall
    /\ attempts = 0
    /\ log = <<>>
    /\ reqOut = NoReqOut
    /\ reqCalled = FALSE
    /\ result = NoResult
    /\ exc = NoExc
    /\ out = NoOut
    /\ page = NoPage
    /\ pagination = NoPagination
    /\ built = NoBuilt
    /\ arg = NoArg
    /\ ret = NoRet
    /\ sent = <<>>
    /\ lastFailed = "none"
    /\ waits = <<>>

NextEnv ==
    \/ \E t \in Tools : \E fmt \in FormatsOf(t) : \E input \in InputsOf(t) :
          Invoke(t, fmt, input)
    \/ \E o \in ProcOutcomes : ClientRespond(o)
    \/ \E o \in ProcOutcomes : DirectRespond(o)
    \/ Finish
    \/ \E e \in ProcEnvs : SetEnv(e)

SpecEnv == InitEnv /\ [][NextEnv]_vars

\* ----------------------------------------------------------------------
\* the configuration of a client on its own: arguments, configuration
\* variables and endpoints
\* ----------------------------------------------------------------------

\* the longest endpoint, in elements
MaxEndpointLen == 2

Endpoints == SeqsUpTo({"/", "e"}, MaxEndpointLen) \ {<<>>}

ConfigInputs ==
    {[fn |-> "config",
      args |-> [base_url |-> b, timeout |-> t, max_retries |-> r],
      environ |-> [base_url |-> eb, timeout |-> et, max_retries |-> er],
      endpoint |-> ep] :
        b \in {Unset, Text(<<>>), Text(<<"a">>), Text(<<"a", "/">>)},
        t \in {NoneVal, Some(5)}, r \in {NoneVal, Some(5)},
        eb \in {Unset, Text(<<"b">>), Text(<<"b", "/">>)},
        et \in {Unset, Text(<<"7">>), Text(<<"x">>)},
        er \in {Unset, Text(<<"7">>), Text(<<"x">>)},
        ep \in Endpoints}

InitConfig ==
    /\ env = Env(<<"k">>, <<>>, <<>>, <<>>)
    /\ clients = [f \in Families |-> NoClient]
    /\ pc = "idle"
    /\ call = NoCall
    /\ attempts = 0
    /\ log = <<>>
    /\ reqOut = NoReqOut
    /\ reqCalled = FALSE
    /\ result = NoResult
    /\ exc = NoExc
    /\ out = NoOut
    /\ page = NoPage
    /\ pagination = NoPagination
    /\ built = NoBuilt
    /\ arg \in ConfigInputs
    /\ ret = NoRet
    /\ sent = <<>>
    /\ lastFailed = "none"
    /\ waits = <<>>

\* a client is constructed with the arguments and, when that succeeded,
\* request builds the URL of the endpoint
Configure ==
    /\ pc = "idle"
    /\ pc' = "configured"
    /\ LET c == ClientConfig(arg.args, arg.environ)
       IN  ret' = [fn |-> "config", config |-> c,
                   url |-> IF c.raised THEN <<>> ELSE RequestUrl(c.base_url, arg.endpoint)]
    /\ UNCHANGED <<env, clients, call, attempts, log, reqOut, reqCalled, result, exc, out,
                   page, pagination, built, arg, sent, lastFailed, waits>>

NextConfig == Configure

SpecConfig == InitConfig /\ [][NextConfig]_vars

\* ----------------------------------------------------------------------
\* format_json_response on its own: JSON-safe payloads
\* ----------------------------------------------------------------------

\* the longest array in a payload
MaxListLen == 2

JScalars == {JNull, JBool(TRUE), JInt(1), JStr("x")}

\* the field names of a record
JKeys == {"error", "name"}

ObjectsOver(V) == UNION {[ks -> V] : ks \in SUBSET JKeys}

\* scalars and records of scalars
JFlat == JScalars \cup {JObj(o) : o \in ObjectsOver(JScalars)}

\* what an array holds
JItems == {JNull, JInt(1), JStr("x"), JObj([k \in {"name"} |-> JStr("x")]),
           JObj([k \in {"error"} |-> JStr("x")])}

Payloads ==
    JFlat \cup {JList(l) : l \in SeqsUpTo(JItems, MaxListLen)}
          \cup {JObj(o) : o \in ObjectsOver(JFlat)}

JsonInputs ==
    {[fn |-> "json", data |-> d, success |-> s, message |-> m] :
        d \in Payloads, s \in BOOLEAN,
        m \in {NoMessage, Message(""), Message("done")}}

InitJson ==
    /\ env = Env(<<>>, <<>>, <<>>, <<>>)
    /\ clients = [f \in Families |-> NoClient]
    /\ pc = "idle"
    /\ call = NoCall
    /\ attempts = 0
    /\ log = <<>>
    /\ reqOut = NoReqOut
    /\ reqCalled = FALSE
    /\ result = NoResult
    /\ exc = NoExc
    /\ out = NoOut
    /\ page = NoPage
    /\ pagination = NoPagination
    /\ built = NoBuilt
    /\ arg \in JsonInputs
    /\ ret = NoRet
    /\ sent = <<>>
    /\ lastFailed = "none"
    /\ waits = <<>>

\* format_json_response(data, success, message) is called and its output
\* is parsed
Encode ==
    /\ pc = "idle"
    /\ pc' = "encoded"
    /\ LET text == JsonResponse(arg.data, arg.success, arg.message)
       IN  ret' = [fn |-> "json", text |-> text, parsed |-> Loads(text)]
    /\ UNCHANGED <<env, clients, call, attempts, log, reqOut, reqCalled, result, exc, out,
                   page, pagination, built, arg, sent, lastFailed, waits>>

NextJson == Encode

SpecJson == InitJson /\ [][NextJson]_vars

\* ----------------------------------------------------------------------
\* Properties
\* ----------------------------------------------------------------------

\* what the last transport attempt of the invocation ended with
LastOutcome == log[Len(log)]

Answered == pc = "done" /\ Len(log) > 0

\* request has returned or raised
RequestEnded == pc = "done" /\ reqCalled

HasPiece(text, p) == \E i \in 1..Len(text) : text[i] = p

IsNetworkFailure(o) == o.kind \in {"ConnectError"} \cup TimeoutTypes

\* C1: every tool invocation, whatever step of it fails (client
\* construction, building the request, the HTTP call, formatting the
\* response), ends by returning a string; no exception leaves a handler.
C1_ToolsNeverRaise == pc = "done" => result.kind = "string"

\* an invocation whose HTTP call failed inside MethodAPIClient.request
C1_Witness ==
    /\ pc = "done"
    /\ result.kind = "string"
    /\ result.caught.type = "MethodAPIError"

\* C2: a connection error on one of the first two attempts of request is
\* followed by another attempt, a call that failed twice with a connection
\* error and then succeeded returns the successful result (3 attempts), and
\* a call answered with 404 is attempted once and fails.
C2_RetryThenSucceed ==
    RequestEnded =>
        /\ \A i \in 1..Len(log) :
              (log[i].kind = "ConnectError" /\ i < MaxAttempts) => i < Len(log)
        /\ (/\ Len(log) = MaxAttempts
            /\ log[1].kind = "ConnectError"
            /\ log[2].kind = "ConnectError"
            /\ log[3].kind = "response"
            /\ IsSuccess(log[3].status)
            /\ ~ParseJson(log[3].body).raised) => ~reqOut.raised
        /\ (LastOutcome.kind = "response" /\ LastOutcome.status = 404)
              => (Len(log) = 1 /\ reqOut.raised)

\* C3: when every attempt of request fails with a connection failure or a
\* timeout, request makes 3 attempts and raises the last connection or
\* timeout exception itself, not wrapped in another error type.
C3_ExhaustedReraisesLast ==
    (RequestEnded /\ \A i \in 1..Len(log) : IsNetworkFailure(log[i])) =>
        /\ Len(log) = MaxAttempts
        /\ reqOut.raised
        /\ reqOut.exc.type = LastOutcome.kind

\* C4: every exception that leaves request is a member of the MethodAPIError
\* family: a taxonomy member raised inside leaves as the same exception,
\* anything else as a generic MethodAPIError whose message is the output of
\* handle_api_error for the original exception.
C4_EscapesAreTaxonomy ==
    (RequestEnded /\ reqOut.raised) =>
        LET o == LastOutcome
        IN  /\ IsInstance(reqOut.exc, "MethodAPIError")
            /\ IsNetworkFailure(o) =>
                  reqOut.exc = Exc("MethodAPIError",
                                   HandleApiError(Exc(o.kind, <<"transport failure">>)).msg)
            /\ (o.kind = "response" /\ o.status # 429 /\ ~IsSuccess(o.status)) =>
                  reqOut.exc = Exc("MethodAPIError",
                                   HandleApiError(HTTPStatusError(o.status, o.body, o.hdr)).msg)
            /\ (o.kind = "response" /\ IsSuccess(o.status)) =>
                  reqOut.exc = Exc("MethodAPIError",
                                   HandleApiError(Exc("JSONDecodeError", <<"Expecting value">>)).msg)
            /\ (o.kind = "response" /\ o.status = 429
                  /\ IsInstance(RateLimitCheck(o.hdr), "MethodAPIError")) =>
                  reqOut.exc = RateLimitCheck(o.hdr)

\* request has failed on a connection error
C4_Witness ==
    /\ RequestEnded
    /\ reqOut.raised
    /\ LastOutcome.kind = "ConnectError"

\* C5: for every response with status 429 request raises RateLimitError,
\* with retry_after set when the Retry-After header is present, whatever
\* its content, and absent when the header is absent.
C5_RateLimitAlways ==
    (RequestEnded /\ LastOutcome.kind = "response" /\ LastOutcome.status = 429) =>
        /\ reqOut.raised
        /\ reqOut.exc.type = "RateLimitError"
        /\ (LastOutcome.hdr.present /\ LastOutcome.hdr.val # <<>>)
              => reqOut.exc.retry_after.has
        /\ ~LastOutcome.hdr.present => ~reqOut.exc.retry_after.has

\* C6: for status 204 request returns the no-content marker without
\* decoding the body; for another success status it returns the decoded
\* JSON body.
C6_NoContentMarker ==
    (RequestEnded /\ LastOutcome.kind = "response") =>
        LET o == LastOutcome
        IN  /\ o.status = 204 => reqOut = Return(NoContentMarker, FALSE)
            /\ (IsSuccess(o.status) /\ o.status # 204 /\ ~ParseJson(o.body).raised) =>
                  reqOut = Return(ParseJson(o.body).val, TRUE)
            /\ (IsSuccess(o.status) /\ o.status # 204 /\ ~reqOut.raised) =>
                  reqOut.val = ParseJson(o.body).val

\* a 204 answer with no content
C6_Witness ==
    /\ RequestEnded
    /\ LastOutcome.kind = "response"
    /\ LastOutcome.status = 204
    /\ LastOutcome.body = "empty"
    /\ ~reqOut.raised

\* C7: handle_api_error is total: for every exception, an HTTP status error
\* with a body that is not JSON, not an object, or whose error member is
\* not an object included, it returns a non-empty text containing "Error".
C7_TranslatorTotal ==
    pc = "translated" =>
        /\ ~out.raised
        /\ out.msg # <<>>
        /\ HasPiece(out.msg, "Error: ")

\* an HTTP status error whose body has an error member that is a string
C7_Witness ==
    /\ pc = "translated"
    /\ exc.type = "HTTPStatusError"
    /\ exc.body = "objErrStr"
    /\ ~out.raised

\* the theme of the message for each HTTP status
C8_StatusTheme(status) ==
    CASE status = 400 -> "Validation failed - "
      [] status = 401 -> "Authentication failed. Your API key or access token is invalid or expired.\n"
      [] status = 403 -> "Permission denied - "
      [] status = 404 -> "Resource not found - "
      [] status = 429 -> "Rate limit exceeded (100 requests/minute or daily limit reached).\n"
      [] status = 500 -> "Method API server error occurred.\n"
      [] status = 503 -> "Method API service temporarily unavailable.\n"
      [] OTHER -> "API request failed with status "

\* the remedy given for each kind of the taxonomy
C8_KindSuggestion(type) ==
    CASE type = "AuthenticationError" -> "\nSuggestion: Verify your authentication credentials."
      [] type = "RateLimitError" -> "\nSuggestion: Wait before making more requests to respect rate limits."
      [] type = "ValidationError" -> "\nSuggestion: Check your input parameters and try again."
      [] type = "NotFoundError" -> "\nSuggestion: Verify the resource ID and try again."
      [] type = "PermissionError" -> "\nSuggestion: Check your account permissions."

\* C8: handle_api_error classifies an HTTP status error by its status alone
\* (400, 401, 403, 404, 429, 500, 503, any other status generic), a timeout
\* and a connection failure by their class, each taxonomy kind by its own
\* branch before the generic MethodAPIError one, and anything else as
\* unexpected.
C8_Classification ==
    pc = "translated" =>
        /\ exc.type = "HTTPStatusError" =>
              /\ out.msg[2] = C8_StatusTheme(exc.status)
              /\ (exc.status \notin {400, 401, 403, 404, 429, 500, 503}) =>
                    out.msg[3] = ToString(exc.status)
        /\ exc.type \in TimeoutTypes =>
              out.msg[2] = "Request timed out while waiting for Method API response.\n"
        /\ exc.type = "ConnectError" =>
              out.msg[2] = "Unable to connect to Method API.\n"
        /\ exc.type \in TaxonomySubtypes =>
              /\ SubSeq(out.msg, 1, 1 + Len(exc.message)) = <<"Error: ">> \o exc.message
              /\ out.msg[Len(out.msg)] = C8_KindSuggestion(exc.type)
        /\ exc.type = "MethodAPIError" => out.msg = <<"Error: ">> \o exc.message
        /\ exc.type \in OtherTypes =>
              /\ out.msg[2] = "Unexpected "
              /\ out.msg[3] = exc.type

\* an HTTP 403 has been translated
C8_Witness ==
    /\ pc = "translated"
    /\ exc.type = "HTTPStatusError"
    /\ exc.status = 403
    /\ out.msg[2] = "Permission denied - "

\* pieces of text that name the failure as a rate limit
RateLimitPieces ==
    {"Rate limit exceeded",
     "Rate limit exceeded (100 requests/minute or daily limit reached).\n"}

MentionsRateLimit(text) == \E i \in 1..Len(text) : text[i] \in RateLimitPieces

RetryAfter30(o) ==
    o.kind = "response" /\ o.status = 429 /\ o.hdr = Header(<<"3", "0">>)

\* C9: when the CRM answers a tool's request with 429 and Retry-After: 30,
\* the text the tool returns includes 30 and names the rate limit.
C9_RateLimitEndToEnd ==
    (Answered /\ RetryAfter30(LastOutcome)) =>
        /\ result.kind = "string"
        /\ HasPiece(result.text, "30")
        /\ MentionsRateLimit(result.text)

\* a tool that goes through request was answered 429 with Retry-After: 30
C9_Witness ==
    /\ RequestEnded
    /\ RetryAfter30(LastOutcome)
    /\ result.kind = "string"

C11_NextOffsetIffHasMore ==
    (pc = "paged" /\ pagination.ok) =>
        (pagination.next_offset.has <=> pagination.has_more)

\* C12: format_pagination_info gives has_more = (total > offset + count)
\* when total is known, has_more true for a full and false for a partial
\* page when it is not, next_offset = offset + count exactly when has_more,
\* and returns total, count, offset and limit unchanged
C12_FormatPaginationInfo ==
    pc = "formatted" =>
        /\ page.total.has =>
              (pagination.has_more <=> page.total.val > page.offset + page.count)
        /\ (~page.total.has /\ page.count = page.limit) => pagination.has_more
        /\ (~page.total.has /\ page.count < page.limit) => ~pagination.has_more
        /\ pagination.has_more =>
              pagination.next_offset = Some(page.offset + page.count)
        /\ ~pagination.has_more => ~pagination.next_offset.has
        /\ pagination.total = page.total
        /\ pagination.count = page.count
        /\ pagination.offset = page.offset
        /\ pagination.limit = page.limit

\* format_pagination_info was given a total that ends exactly at the end of
\* the page, and reported no further record
C12_Witness ==
    /\ pc = "formatted"
    /\ page.total.has
    /\ page.count > 0
    /\ page.total.val = page.offset + page.count
    /\ ~pagination.has_more
    /\ ~pagination.next_offset.has

\* C13: a table query with top=2 whose response holds 2 records and neither
\* a total nor a next link returns count=2, has_more=true and next_offset=2
C13_FullPageQuery ==
    (/\ pc = "paged"
     /\ page.tool = "method_tables_query"
     /\ page.top = Some(2)
     /\ page.skip \in {NoneVal, Some(0)}
     /\ page.response = DictResponse(2, Absent, Absent, FALSE)) =>
        /\ pagination.ok
        /\ pagination.count = 2
        /\ pagination.has_more
        /\ pagination.next_offset = Some(2)

\* C14: the event-routine and API-key lists report has_more = true and
\* next_offset = offset + count for a full page of a response that carries
\* no total count
C14_FullPageWithoutTotal ==
    (/\ pc = "paged"
     /\ page.tool \in {"method_events_list_routines", "method_apikeys_list"}
     /\ ~page.response.isList
     /\ page.response.total = Absent
     /\ page.response.n = OrDefault(page.top, ListDefaultLimit)) =>
        /\ pagination.ok
        /\ pagination.has_more
        /\ pagination.next_offset = Some(OrDefault(page.skip, 0) + page.response.n)

\* C15: every paginated list tool reports has_more = true and returns the
\* link when the response carries a continuation link, and for table query
\* has_more is exactly (link present)
C15_LinkSurfaced ==
    (pc = "paged" /\ ~page.response.isList) =>
        /\ page.response.link =>
              /\ pagination.ok
              /\ pagination.has_more
              /\ pagination.next_link = "link"
        /\ page.tool = "method_tables_query" =>
              (pagination.has_more <=> page.response.link)

\* ----------------------------------------------------------------------
\* Credentials
\* ----------------------------------------------------------------------

\* every character of cs is whitespace (the empty text included)
IsBlank(cs) == \A p \in 1..Len(cs) : cs[p] \in Whitespace

\* k is raw without its leading and trailing whitespace
IsTrimOf(k, raw) ==
    /\ k # <<>> => (k[1] \notin Whitespace /\ k[Len(k)] \notin Whitespace)
    /\ \E i \in 0..Len(raw) :
          /\ i + Len(k) <= Len(raw)
          /\ SubSeq(raw, i + 1, i + Len(k)) = k
          /\ IsBlank(SubSeq(raw, 1, i))
          /\ IsBlank(SubSeq(raw, i + Len(k) + 1, Len(raw)))

IsSet(v) == v # <<>>

\* C16: whenever METHOD_API_KEY holds a usable key, AuthManager selects the
\* API-key strategy, whatever OAuth2 variables are set as well
C16_ApiKeyWins ==
    (pc = "built" /\ ~IsBlank(env.api_key)) =>
        /\ ~built.manager.raised
        /\ built.manager.auth.method = "api_key"
        /\ IsTrimOf(built.manager.auth.api_key, env.api_key)

\* a key and all three OAuth2 variables were set, and the key was selected
C16_Witness ==
    /\ pc = "built"
    /\ ~IsBlank(env.api_key)
    /\ IsSet(env.client_id) /\ IsSet(env.client_secret) /\ IsSet(env.redirect_uri)
    /\ built.manager.auth.method = "api_key"

\* the strategy the precedence API key > client-credentials >
\* authorization-code > implicit selects
FirstMatching(e) ==
    IF IsSet(e.api_key) THEN "api_key"
    ELSE IF IsSet(e.client_id) /\ IsSet(e.client_secret) THEN "oauth2_client_credentials"
    ELSE IF IsSet(e.client_id) /\ IsSet(e.client_secret) /\ IsSet(e.redirect_uri)
    THEN "oauth2_authorization_code"
    ELSE IF IsSet(e.client_id) THEN "oauth2_implicit"
    ELSE "none"

\* C17: AuthManager selects the first strategy, in the order API key >
\* client-credentials > authorization-code > implicit, whose variables are
\* all set, and fails with AuthenticationError exactly when none matches
C17_Precedence ==
    pc = "built" =>
        /\ built.manager.raised <=> FirstMatching(env) = "none"
        /\ built.manager.raised => built.manager.exc.type = "AuthenticationError"
        /\ ~built.manager.raised => built.manager.auth.method = FirstMatching(env)

\* C18: APIKeyAuth fails with AuthenticationError for an empty or
\* whitespace-only key; for any other key it stores the trimmed key,
\* get_headers gives Authorization = "APIKey <trimmed key>" and
\* Content-Type = "application/json", and is_valid is true
C18_APIKeyAuth ==
    pc = "built" =>
        /\ IsBlank(env.api_key) =>
              (built.key.raised /\ built.key.exc.type = "AuthenticationError")
        /\ ~IsBlank(env.api_key) =>
              /\ ~built.key.raised
              /\ IsTrimOf(built.key.auth.api_key, env.api_key)
              /\ built.key.auth.api_key # <<>>
              /\ ~built.headers.raised
              /\ built.headers.headers.Authorization =
                    <<"A", "P", "I", "K", "e", "y", " ">> \o built.key.auth.api_key
              /\ built.headers.headers.ContentType = "application/json"
              /\ IsValid(built.key.auth)

\* the key " a " was stored as "a" and sent as "APIKey a"
C18_Witness ==
    /\ pc = "built"
    /\ env.api_key = <<" ", "a", " ">>
    /\ built.key.auth.api_key = <<"a">>
    /\ built.headers.headers.Authorization = <<"A", "P", "I", "K", "e", "y", " ", "a">>

\* the strategy the environment selects is an OAuth2 one
SelectsOAuth2(e) ==
    ~AuthManager(e).raised /\ AuthManager(e).auth.method \in OAuth2Methods

Given(x) == x.has /\ x.val # <<>>

\* the base URL the priority argument > environment variable > default gives
Preferred(given, variable, default) ==
    IF Given(given) THEN given.val ELSE IF variable.has THEN variable.val ELSE default

\* C21: for base URL, timeout and max-retries the client uses the explicit
\* argument when one is given, otherwise the environment variable when it
\* is set, otherwise the default
C21_ArgumentFirst ==
    pc = "configured" =>
        /\ Given(arg.args.base_url) => ret.config.base_url = arg.args.base_url.val
        /\ arg.args.timeout.has =>
              (~ret.config.raised /\ ret.config.timeout = arg.args.timeout.val)
        /\ arg.args.max_retries.has =>
              (~ret.config.raised /\ ret.config.max_retries = arg.args.max_retries.val)
        /\ (~arg.args.timeout.has /\ ~arg.environ.timeout.has) =>
              ret.config.timeout = DefaultTimeout \/ ret.config.raised
        /\ (~arg.args.max_retries.has /\ ~arg.environ.max_retries.has) =>
              ret.config.max_retries = DefaultMaxRetries \/ ret.config.raised

\* C22: the URL request builds is the base URL, whatever its source,
\* without its trailing slash, one '/', and the endpoint without its
\* leading slash
C22_OneSlash ==
    (pc = "configured" /\ ~ret.config.raised) =>
        ret.url = RStripSlash(Preferred(arg.args.base_url, arg.environ.base_url,
                                        DefaultBaseUrl))
                    \o <<"/">> \o LStripSlash(arg.endpoint)

\* ----------------------------------------------------------------------
\* Uploads, deletes, headers, error texts
\* ----------------------------------------------------------------------

\* C23: an upload whose content decodes to more than 50 MB, or cannot be
\* decoded, ends before any network call, and the two errors differ
C23_UploadRejectedEarly ==
    (/\ pc # "idle"
     /\ call.tool.name = "method_files_upload"
     /\ call.input \in {"tooBig", "badBase64"}) =>
        /\ pc = "done"
        /\ log = <<>> /\ sent = <<>> /\ attempts = 0
        /\ clients["files"].made =>
              /\ result.form = "envelope" /\ ~result.success
              /\ call.input = "tooBig" =>
                    /\ HasPiece(result.text, "bytes) exceeds 50MB limit (")
                    /\ result.text # ToolStart([call EXCEPT !.input = "badBase64"]).text
              /\ call.input = "badBase64" =>
                    /\ HasPiece(result.text, "Invalid base64 content: ")
                    /\ result.text # ToolStart([call EXCEPT !.input = "tooBig"]).text

\* an upload of one byte more than 50 MB was refused with the size message
\* and nothing was sent
C23_Witness ==
    /\ pc = "done"
    /\ call.tool.name = "method_files_upload"
    /\ call.input = "tooBig"
    /\ clients["files"].made
    /\ result.form = "envelope" /\ ~result.success
    /\ HasPiece(result.text, "bytes) exceeds 50MB limit (")
    /\ log = <<>>

\* C24: for every JSON-safe payload, a record with a field "error"
\* included, parsing the output of format_json_response gives an object
\* {success, message?, data} whose data equals the payload, with message
\* present exactly when a non-empty message was given
C24_RoundTrip ==
    pc = "encoded" =>
        /\ ret.parsed.ok
        /\ ret.parsed.val.t = "obj"
        /\ DOMAIN ret.parsed.val.o =
              {"success", "data"} \cup
                (IF arg.message.has /\ arg.message.val # "" THEN {"message"} ELSE {})
        /\ ret.parsed.val.o["success"] = JBool(arg.success)
        /\ ret.parsed.val.o["data"] = arg.data
        /\ "message" \in DOMAIN ret.parsed.val.o =>
              ret.parsed.val.o["message"] = JStr(arg.message.val)

\* C25: a delete that the API answers with 404 (the resource is already
\* absent) returns a not-found error string and never the success
\* envelope; the success envelope is returned only when the API answered
\* the DELETE with a success status
C25_DeleteOfAbsent ==
    (pc = "done" /\ call.tool.name \in DeleteTools) =>
        /\ (log # <<>> /\ LastOutcome.kind = "response" /\ LastOutcome.status = 404) =>
              /\ result.kind = "string"
              /\ result.form = "plain"
              /\ ~result.success
              /\ HasPiece(result.text, "Resource not found - ")
        /\ (result.form = "envelope" /\ result.success) =>
              /\ log # <<>>
              /\ LastOutcome.kind = "response"
              /\ IsSuccess(LastOutcome.status)

\* a delete was answered with 404 and returned the not-found text
C25_Witness ==
    /\ pc = "done"
    /\ call.tool.name = "method_files_delete"
    /\ log # <<>>
    /\ LastOutcome.kind = "response" /\ LastOutcome.status = 404
    /\ result.form = "plain"
    /\ HasPiece(result.text, "Resource not found - ")

\* the wait the claimed backoff gives before retry k
C26_ClaimedWait(k) == Min(2 * 2 ^ (k - 1), 10)

\* C26: request waits min(2 * 2^(k-1), 10) seconds before retry k, that
\* is, after the k-th attempt failed on the network and attempts remain
C26_Backoff ==
    (pc # "idle" /\ call.tool.via = "client") =>
        \A k \in 1..Len(log) :
            (IsNetworkFailure(log[k]) /\ k < MaxAttempts) =>
                /\ Len(waits) >= k
                /\ waits[k] = C26_ClaimedWait(k)

\* C27: in Markdown mode, under a non-empty page, the footer of every
\* paginated list tool shows the record range offset + 1 through
\* offset + count
C27_FooterRange ==
    (pc = "paged" /\ pagination.ok /\ page.response.n > 0) =>
        /\ Len(ret.footer) >= 4
        /\ ret.footer[2] = ToString(OrDefault(page.skip, 0) + 1)
        /\ ret.footer[3] = "-"
        /\ ret.footer[4] = ToString(OrDefault(page.skip, 0) + page.response.n)

\* C28: every request, through MethodAPIClient.request or sent by a
\* handler itself, carries the Authorization header that the strategy of
\* the module's client produces at that call, whatever the environment has
\* become since; the upload drops Content-Type and nothing else
C28_FreshAuthHeaders ==
    /\ Len(sent) = Len(log)
    /\ \A i \in 1..Len(sent) :
          LET h == GetHeaders(clients[call.tool.family].auth)
          IN  /\ ~h.raised
              /\ sent[i].Authorization = h.headers.Authorization
              /\ sent[i].Authorization # <<>>
              /\ IF call.tool.name = "method_files_upload"
                 THEN DOMAIN sent[i] = {"Authorization"}
                 ELSE /\ DOMAIN sent[i] = {"Authorization", "ContentType"}
                      /\ sent[i].ContentType = h.headers.ContentType

\* an upload was sent after the credentials in the environment were taken
\* away
C28_Witness ==
    /\ pc = "done"
    /\ call.tool.name = "method_files_upload"
    /\ Len(sent) = 1
    /\ AuthManager(env).raised

\* C29: an HTTP 400, 403, 404 or 500 gives the same text from a tool that
\* goes through MethodAPIClient.request (table get) and from a tool that
\* calls the transport itself (file download)
C29_SameErrorText ==
    (/\ pc = "done"
     /\ call.tool.name = "method_tables_get"
     /\ log # <<>>
     /\ LastOutcome.kind = "response"
     /\ LastOutcome.status \in {400, 403, 404, 500}) =>
        LET d == DirectFinish([tool |-> Tool("method_files_download", "files", "direct", FALSE),
                               fmt |-> "json", input |-> "ok"], LastOutcome)
        IN  /\ result.kind = d.kind
            /\ result.text = d.text

====
